---- MODULE Spec2Model ----
(***************************************************************************)
(* Schedule timeline engine of MassagePlanner: the store (Supabase tables  *)
(* appointments and breaks), the in-memory lists of the useAppointments    *)
(* hook, the pause counter and debounce timer that schedule the gap        *)
(* reconciler (autoGenerateBreaks), and the placement handlers of          *)
(* ScheduleView (single shift, drag, bulk shift).                          *)
(*                                                                         *)
(* Times are whole minutes since local midnight of today, the day          *)
(* new Date() gives; an item of another day lies whole days further.       *)
(* An item is a record [id, start, dur, end]; end is stored redundantly,   *)
(* exactly as the tables store end_time.                                   *)
(***************************************************************************)
EXTENDS Integers, Sequences, FiniteSets, TLC

(***************************************************************************)
(* Program constants.                                                      *)
(***************************************************************************)
MinutesPerHour == 60
DayStart == 480
DayEnd == 1140
BulkDayStart == 420
BulkDayEnd == 1440
MinutesPerDay == 24 * MinutesPerHour
Today == 0
GapThreshold == 30
SnapMinutes == 5
PixelsPerHour == 500
StartHourMinutes == 480

(***************************************************************************)
(* Bounds of the model.                                                    *)
(***************************************************************************)
MaxPasses == 2
MaxEdits == 2
MaxFailures == 1
MaxSnapshotBreaks == 2

Absent == -1
Empty == -2
BrkId(n) == "b" \o ToString(n)

Item(i, s, d) == [id |-> i, start |-> s, dur |-> d, end |-> s + d]

(***************************************************************************)
(* Timestamp texts.  The client writes Date.toISOString() texts; the store *)
(* keeps TIMESTAMPTZ instants and renders them in the format storeFmt,     *)
(* which the repository does not determine.                                *)
(***************************************************************************)
toISOString(t) == <<t, "Z">>
StoreText(t, fmt) == <<t, fmt>>
StoreFormats == {"Z", "+00:00"}

(***************************************************************************)
(* Sorted views of a table: every order by start time (ties in any order). *)
(***************************************************************************)
Perms(S) ==
    {s \in [1..Cardinality(S) -> S] : \A i, j \in 1..Cardinality(S) : i # j => s[i] # s[j]}

SortedSeqs(S) ==
    {s \in Perms(S) : \A i, j \in 1..Cardinality(S) : i < j => s[i].start <= s[j].start}

Ids(S) == {x.id : x \in S}
SeqRange(s) == {s[i] : i \in 1..Len(s)}

(***************************************************************************)
(* autoGenerateBreaks: the plan computed from one snapshot.                *)
(***************************************************************************)
\* Variant that also fills the empty gap between touching appointments.
LegitimateGap_NonNegative(g) == g >= 0 /\ g <= GapThreshold

LegitimateGap(g) == g > 0 /\ g <= GapThreshold

OverlapsGap(b, currentEnd, nextStart) ==
    \/ (b.start >= currentEnd /\ b.start < nextStart)
    \/ (b.end > currentEnd /\ b.end <= nextStart)
    \/ (b.start < currentEnd /\ b.end > nextStart)

NeedsUpdate(b, targetStart, targetDuration, fmt) ==
    \/ StoreText(b.start, fmt) # toISOString(targetStart)
    \/ b.dur # targetDuration

RECURSIVE PlanGaps(_, _, _, _)
PlanGaps(sa, sb, i, fmt) ==
    IF i >= Len(sa) THEN [creates |-> <<>>, updates |-> <<>>]
    ELSE LET currentEnd == sa[i].end
             nextStart == sa[i + 1].start
             gapMinutes == nextStart - currentEnd
             rest == PlanGaps(sa, sb, i + 1, fmt)
             existingBreaks == SelectSeq(sb, LAMBDA b : OverlapsGap(b, currentEnd, nextStart))
         IN IF LegitimateGap(gapMinutes)
            THEN IF existingBreaks # <<>>
                 THEN IF NeedsUpdate(existingBreaks[1], currentEnd, gapMinutes, fmt)
                      THEN [creates |-> rest.creates,
                            updates |-> <<[id |-> existingBreaks[1].id,
                                           start |-> currentEnd,
                                           dur |-> gapMinutes]>> \o rest.updates]
                      ELSE rest
                 ELSE [creates |-> <<[start |-> currentEnd, dur |-> gapMinutes]>> \o rest.creates,
                       updates |-> rest.updates]
            ELSE rest

\* Variant that only asks the break to start after the gap's left appointment.
IsLegitimate_StartOnly(b, sa) ==
    \E i \in 1..(Len(sa) - 1) :
        /\ LegitimateGap(sa[i + 1].start - sa[i].end)
        /\ b.start >= sa[i].end

IsLegitimate(b, sa) ==
    \E i \in 1..(Len(sa) - 1) :
        /\ LegitimateGap(sa[i + 1].start - sa[i].end)
        /\ b.start >= sa[i].end
        /\ b.end <= sa[i + 1].start

BreaksToDelete(sa, sb, updates) ==
    LET breaksBeingUpdated == {updates[k].id : k \in 1..Len(updates)}
        doomed == SelectSeq(sb, LAMBDA b : b.id \notin breaksBeingUpdated /\ ~IsLegitimate(b, sa))
    IN [k \in 1..Len(doomed) |-> doomed[k].id]

Plan(sa, sb, fmt) ==
    LET g == PlanGaps(sa, sb, 1, fmt)
    IN [creates |-> g.creates, updates |-> g.updates,
        deletes |-> BreaksToDelete(sa, sb, g.updates)]

(***************************************************************************)
(* appointmentService: end-time derivation and the row written by an       *)
(* update carrying the fields upd.start and upd.dur (Absent = not carried).*)
(***************************************************************************)
calculateEndTime(startTime, durationMinutes) == startTime + durationMinutes

\* JavaScript truthiness of an optional text (Empty = '') and of an optional number.
TruthyText(v) == v # Absent /\ v # Empty
TruthyNumber(v) == v # Absent /\ v # 0

\* The row an update carrying upd.start, upd.dur and upd.end leaves: the carried
\* fields are written as they are; end_time is recalculated from the carried or
\* current start and duration only when a start or a duration is carried.
ServiceRow(cur, upd) ==
    LET recalculated == TruthyText(upd.start) \/ TruthyNumber(upd.dur)
        startTime == IF TruthyText(upd.start) THEN upd.start ELSE cur.start
        duration == IF TruthyNumber(upd.dur) THEN upd.dur ELSE cur.dur
    IN [id |-> cur.id,
        start |-> IF upd.start # Absent THEN upd.start ELSE cur.start,
        dur |-> IF upd.dur # Absent THEN upd.dur ELSE cur.dur,
        end |-> IF recalculated THEN calculateEndTime(startTime, duration)
                ELSE IF upd.end # Absent THEN upd.end
                ELSE cur.end]

\* The columns are TIMESTAMPTZ NOT NULL and duration_minutes is CHECKed > 0.
StoreAccepts(row) == row.start # Empty /\ row.end # Empty /\ row.dur > 0

UpdatedRow(cur, upd) ==
    ServiceRow(cur, [start |-> upd.start, dur |-> upd.dur, end |-> Absent])

Row(table, id) == CHOOSE r \in table : r.id = id

StoreUpdate(table, id, upd) ==
    {IF r.id = id THEN UpdatedRow(r, upd) ELSE r : r \in table}

(***************************************************************************)
(* State.                                                                  *)
(***************************************************************************)
VARIABLES
    dbApts,         \* table appointments of the store
    dbBrks,         \* table breaks of the store
    storeFmt,       \* text format in which the store renders a timestamp
    nextBrk,        \* number of the next break id the store generates
    appointments,   \* useAppointments: appointments state
    breaks,         \* useAppointments: breaks state
    isLoading,      \* useAppointments: isLoading state
    selectedDate,   \* App: selectedDate state, as a number of days after today
    pauseCounter,   \* pauseCounterRef.current
    timer,          \* autoGenerationTimeoutRef.current is a pending timeout
    timeouts,       \* number of pending setTimeout callbacks of the effect
    effectCleanup,  \* the last run of the effect returned its cleanup function
    passes,         \* calls of autoGenerateBreaks in flight
    settled,        \* a pass has applied all its mutations and nothing was written since
    synced,         \* the last edit was not an appointment write still awaiting a snapshot
    op,             \* the asynchronous ScheduleView handler in flight
    dragItem,       \* ScheduleView: dragItem state
    edits,          \* number of user operations started
    failures,       \* number of store calls that have failed
    last            \* outcome of the last placement request

vars == <<dbApts, dbBrks, storeFmt, nextBrk, appointments, breaks, isLoading, selectedDate,
          pauseCounter, timer, timeouts, effectCleanup, passes, settled, synced, op,
          dragItem, edits, failures, last>>

storeVars == <<dbApts, dbBrks, storeFmt, nextBrk>>
timerVars == <<timer, timeouts, effectCleanup>>
userVars == <<op, dragItem, edits, last>>

PassSlots == 1..MaxPasses
IdlePass == [pc |-> "idle", creates |-> <<>>, updates |-> <<>>, deletes |-> <<>>,
             failed |-> FALSE, stale |-> FALSE, resettled |-> FALSE, manual |-> {}]

\* Another writer has changed the store under the snapshots of these passes.
Outdated(ps, writers) ==
    [q \in PassSlots |->
        IF q \notin writers /\ ps[q].pc = "apply" THEN [ps[q] EXCEPT !.stale = TRUE] ELSE ps[q]]

\* The handlers that move or delete one break: arrow buttons, drag, delete.
BreakEditKinds == {"shiftBrk", "dragBrk", "deleteBrk"}

\* The call c of a handler of this kind has written the store: the passes holding
\* a snapshot fetched before it note the break that was moved or deleted by hand.
ManuallyEdited(ps, kind, c) ==
    [q \in PassSlots |->
        IF ps[q].pc = "apply" /\ kind \in BreakEditKinds
        THEN [ps[q] EXCEPT !.manual = @ \cup {c.id}] ELSE ps[q]]

NoOp == [kind |-> "none", id |-> "none", requested |-> 0, dur |-> 0, queue |-> <<>>,
        chain |-> <<>>, delta |-> 0,
         resume |-> FALSE, drag |-> FALSE]
NoDrag == [id |-> "none", type |-> "none", hasMoved |-> FALSE]

\* App: the lists handed to ScheduleView hold the items of the selected date.
isSameDay(time, day) == time \div MinutesPerDay = day
filteredAppointments == {apt \in appointments : isSameDay(apt.start, selectedDate)}
filteredBreaks == {brk \in breaks : isSameDay(brk.start, selectedDate)}
NoLast == [kind |-> "none", id |-> "none", requested |-> 0, reason |-> "none"]

InFlight == {p \in PassSlots : passes[p].pc # "idle"}

(***************************************************************************)
(* The auto-generation effect of useAppointments: a change of its          *)
(* dependencies cancels the pending timeout and schedules a new one when   *)
(* the hook is loaded, not paused and holds more than one appointment.     *)
(***************************************************************************)
EffectTimer(loading, counter, apts) ==
    ~loading /\ counter = 0 /\ Cardinality(apts) > 1

NoEffectRun == [timer |-> timer, timeouts |-> timeouts, effectCleanup |-> effectCleanup]

\* Variant of the effect that schedules a timeout without cancelling the pending one.
AutoGenerationEffect_NoCancel(condition) ==
    IF condition
    THEN [timer |-> TRUE, timeouts |-> timeouts + 1, effectCleanup |-> TRUE]
    ELSE [timer |-> timer, timeouts |-> timeouts, effectCleanup |-> FALSE]

\* One run of the effect after a change of its dependencies: the cleanup of the
\* previous run (when that run returned one) clears the referenced timeout, then
\* the body clears the referenced timeout, if any, and sets a new one.
AutoGenerationEffect(condition) ==
    LET cleared == effectCleanup /\ timer
        ref1 == timer /\ ~cleared
        pending1 == IF cleared THEN timeouts - 1 ELSE timeouts
        pending2 == IF ref1 THEN pending1 - 1 ELSE pending1
    IN IF condition
       THEN [timer |-> TRUE, timeouts |-> pending2 + 1, effectCleanup |-> TRUE]
       ELSE [timer |-> ref1, timeouts |-> pending1, effectCleanup |-> FALSE]

SetTimerVars(e) ==
    /\ timer' = e.timer
    /\ timeouts' = e.timeouts
    /\ effectCleanup' = e.effectCleanup

(***************************************************************************)
(* The debounce timeout fires: autoGenerateBreaks is called.  It returns   *)
(* at once when paused; otherwise it requests the snapshot.                *)
(***************************************************************************)
\* Variant whose call of autoGenerateBreaks does not look at the pause counter.
TimerFire_Unpaused ==
    /\ timeouts > 0
    /\ timeouts' = timeouts - 1
    /\ timer' = FALSE
    /\ UNCHANGED effectCleanup
    /\ \E p \in PassSlots :
          /\ passes[p].pc = "idle"
          /\ \A q \in PassSlots : q < p => passes[q].pc # "idle"
          /\ passes' = [passes EXCEPT ![p] = [IdlePass EXCEPT !.pc = "fetch"]]
    /\ UNCHANGED <<storeVars, appointments, breaks, isLoading, selectedDate, pauseCounter, settled,
                   synced, userVars, failures>>

TimerFire ==
    /\ timeouts > 0
    /\ timeouts' = timeouts - 1
    /\ timer' = FALSE
    /\ UNCHANGED effectCleanup
    /\ \/ /\ pauseCounter > 0
          /\ UNCHANGED passes
       \/ /\ pauseCounter = 0
          /\ \E p \in PassSlots :
                /\ passes[p].pc = "idle"
                /\ \A q \in PassSlots : q < p => passes[q].pc # "idle"
                /\ passes' = [passes EXCEPT ![p] = [IdlePass EXCEPT !.pc = "fetch"]]
    /\ UNCHANGED <<storeVars, appointments, breaks, isLoading, selectedDate, pauseCounter, settled,
                   synced, userVars, failures>>

(***************************************************************************)
(* The snapshot arrives (fetchAppointments, fetchBreaks) and the plan is   *)
(* computed.  With an empty plan the pass ends here ("No changes needed"). *)
(***************************************************************************)
PassFetch(p) ==
    /\ passes[p].pc = "fetch"
    /\ \E sa \in SortedSeqs(dbApts), sb \in SortedSeqs(dbBrks) :
          LET plan == Plan(sa, sb, storeFmt)
              empty == plan.creates = <<>> /\ plan.updates = <<>> /\ plan.deletes = <<>>
          IN /\ passes' = [passes EXCEPT ![p] =
                    IF empty THEN IdlePass
                    ELSE [pc |-> "apply", creates |-> plan.creates,
                          updates |-> plan.updates, deletes |-> plan.deletes,
                          failed |-> FALSE, stale |-> FALSE, resettled |-> settled,
                          manual |-> {}]]
             /\ settled' = IF empty THEN InFlight = {p} ELSE settled
    /\ synced' = TRUE
    /\ UNCHANGED <<storeVars, appointments, breaks, isLoading, selectedDate, pauseCounter, timerVars,
                   userVars, failures>>

(***************************************************************************)
(* One mutation of the batch reaches the store: creates first, then        *)
(* updates, then deletes.  A failed call is logged and the loop goes on.   *)
(* An update of a row that no longer exists fails (.single()).             *)
(***************************************************************************)
\* Variant in which a failed call ends the pass: the rest of the batch is dropped.
AfterMutation_Abort(p, rec, bad, injected) ==
    LET done == rec.creates = <<>> /\ rec.updates = <<>> /\ rec.deletes = <<>>
        failed == rec.failed \/ bad
    IN /\ passes' = Outdated([passes EXCEPT ![p] =
              IF bad THEN IdlePass
              ELSE [rec EXCEPT !.failed = failed,
                               !.pc = IF done THEN "refresh" ELSE "apply"]],
              IF bad THEN PassSlots ELSE {p})
       /\ settled' = (done /\ ~failed /\ ~rec.stale /\ InFlight = {p})
       /\ failures' = IF injected THEN failures + 1 ELSE failures

AfterMutation(p, rec, bad, injected) ==
    LET done == rec.creates = <<>> /\ rec.updates = <<>> /\ rec.deletes = <<>>
        failed == rec.failed \/ bad
    IN /\ passes' = Outdated([passes EXCEPT ![p] =
              [rec EXCEPT !.failed = failed, !.pc = IF done THEN "refresh" ELSE "apply"]],
              IF bad THEN PassSlots ELSE {p})
       /\ settled' = (done /\ ~failed /\ ~rec.stale /\ InFlight = {p})
       /\ failures' = IF injected THEN failures + 1 ELSE failures

ApplyCreate(p, ok) ==
    LET c == Head(passes[p].creates)
        rec == [passes[p] EXCEPT !.creates = Tail(@)]
    IN /\ passes[p].creates # <<>>
       /\ IF ok
          THEN /\ dbBrks' = dbBrks \cup
                       {[id |-> BrkId(nextBrk), start |-> c.start, dur |-> c.dur,
                         end |-> calculateEndTime(c.start, c.dur)]}
               /\ nextBrk' = nextBrk + 1
          ELSE UNCHANGED <<dbBrks, nextBrk>>
       /\ AfterMutation(p, rec, ~ok, ~ok)

ApplyUpdate(p, ok) ==
    LET u == Head(passes[p].updates)
        rec == [passes[p] EXCEPT !.updates = Tail(@)]
        found == u.id \in Ids(dbBrks)
    IN /\ passes[p].creates = <<>>
       /\ passes[p].updates # <<>>
       /\ dbBrks' = IF ok /\ found
                    THEN StoreUpdate(dbBrks, u.id, [start |-> u.start, dur |-> u.dur])
                    ELSE dbBrks
       /\ UNCHANGED nextBrk
       /\ AfterMutation(p, rec, ~(ok /\ found), ~ok)

ApplyDelete(p, ok) ==
    LET d == Head(passes[p].deletes)
        rec == [passes[p] EXCEPT !.deletes = Tail(@)]
    IN /\ passes[p].creates = <<>>
       /\ passes[p].updates = <<>>
       /\ passes[p].deletes # <<>>
       /\ dbBrks' = IF ok THEN {b \in dbBrks : b.id # d} ELSE dbBrks
       /\ UNCHANGED nextBrk
       /\ AfterMutation(p, rec, ~ok, ~ok)

PassApply(p) ==
    /\ passes[p].pc = "apply"
    /\ \E ok \in BOOLEAN :
          /\ ok \/ failures < MaxFailures
          /\ \/ ApplyCreate(p, ok)
             \/ ApplyUpdate(p, ok)
             \/ ApplyDelete(p, ok)
    /\ UNCHANGED <<dbApts, storeFmt, appointments, breaks, isLoading, selectedDate, pauseCounter, timerVars,
                   synced, userVars>>

(***************************************************************************)
(* The pass ends: fetchBreaks, setBreaks.                                  *)
(***************************************************************************)
PassRefresh(p) ==
    /\ passes[p].pc = "refresh"
    /\ breaks' = dbBrks
    /\ passes' = [passes EXCEPT ![p] = IdlePass]
    /\ UNCHANGED <<storeVars, appointments, isLoading, selectedDate, pauseCounter, timerVars, settled,
                   synced, userVars, failures>>

(***************************************************************************)
(* resumeAutoGeneration: the counter goes down, never below zero; at zero  *)
(* forceRefresh changes and the auto-generation effect runs again.         *)
(***************************************************************************)
ResumedCounter(counter) == IF counter - 1 > 0 THEN counter - 1 ELSE 0

(***************************************************************************)
(* The reconciler alone: any snapshot, a pass, and a further pass started  *)
(* by a resume call once the previous pass has ended.                      *)
(***************************************************************************)
ResumeIdle ==
    /\ InFlight = {}
    /\ ~timer
    /\ pauseCounter' = ResumedCounter(pauseCounter)
    /\ SetTimerVars(IF ResumedCounter(pauseCounter) = 0
                    THEN AutoGenerationEffect(EffectTimer(isLoading, 0, appointments))
                    ELSE NoEffectRun)
    /\ UNCHANGED <<storeVars, appointments, breaks, isLoading, selectedDate, passes, settled, synced,
                   userVars, failures>>

(***************************************************************************)
(* ScheduleView: the overlap tests, the bounds of a single shift, the      *)
(* pointer-to-time conversion and the touching chains.                     *)
(***************************************************************************)
\* Variant that also counts intervals that only touch.
Overlap_Closed(s1, e1, s2, e2) == s1 <= e2 /\ e1 >= s2

\* Variant that only looks whether the candidate starts inside the other item.
Overlap_StartInside(s1, e1, s2, e2) == s1 < e2 /\ s1 >= s2

Overlap(s1, e1, s2, e2) == s1 < e2 /\ e1 > s2

appointmentOverlapsAppointment(apts, appointmentId, newStartTime, durationMinutes) ==
    \E apt \in apts :
        /\ apt.id # appointmentId
        /\ Overlap(newStartTime, newStartTime + durationMinutes, apt.start, apt.end)

breakOverlapsAny(apts, brks, breakId, newStartTime, durationMinutes) ==
    \/ \E apt \in apts :
           Overlap(newStartTime, newStartTime + durationMinutes, apt.start, apt.end)
    \/ \E brk \in brks :
           /\ brk.id # breakId
           /\ Overlap(newStartTime, newStartTime + durationMinutes, brk.start, brk.end)

InsideDay(newStartTime, durationMinutes) ==
    /\ ~(newStartTime < DayStart)
    /\ ~(newStartTime + durationMinutes > DayEnd)

InsideBulkDay(newStartTime, durationMinutes) ==
    /\ ~(newStartTime < BulkDayStart)
    /\ ~(newStartTime + durationMinutes > BulkDayEnd)

\* Variant that tests the shifted item against the bounds of the bulk shifts.
canShiftTime_BulkBounds(apts, brks, id, minutesShift) ==
    /\ id \in Ids(apts \cup brks)
    /\ LET item == CHOOSE x \in apts \cup brks : x.id = id
           newStartTime == item.start + minutesShift
       IN /\ InsideBulkDay(newStartTime, item.dur)
          /\ IF id \in Ids(apts)
             THEN ~appointmentOverlapsAppointment(apts, id, newStartTime, item.dur)
             ELSE ~breakOverlapsAny(apts, brks, id, newStartTime, item.dur)

canShiftTime(apts, brks, id, minutesShift) ==
    /\ id \in Ids(apts \cup brks)
    /\ LET item == CHOOSE x \in apts \cup brks : x.id = id
           newStartTime == item.start + minutesShift
       IN /\ ~(newStartTime < DayStart)
          /\ ~(newStartTime + item.dur > DayEnd)
          /\ IF id \in Ids(apts)
             THEN ~appointmentOverlapsAppointment(apts, id, newStartTime, item.dur)
             ELSE ~breakOverlapsAny(apts, brks, id, newStartTime, item.dur)

\* Math.round(x / y) for y > 0: halves go up.
RoundDiv(x, y) == (2 * x + y) \div (2 * y)

\* The time under the pointer before it is constrained to the day.
PointerTime(relativeY) ==
    StartHourMinutes
        + RoundDiv(relativeY * MinutesPerHour, PixelsPerHour * SnapMinutes) * SnapMinutes

\* Variant without the upper constraint.
yToTime_NoMaximum(relativeY) ==
    LET date == PointerTime(relativeY)
    IN IF date < DayStart THEN DayStart ELSE date

yToTime(relativeY) ==
    LET date == PointerTime(relativeY)
    IN IF date < DayStart THEN DayStart
       ELSE IF date > DayEnd THEN DayEnd
       ELSE date

Entry(tbl, x) == [tbl |-> tbl, id |-> x.id, start |-> x.start, dur |-> x.dur]

\* Variant that also takes an item starting one minute after the chain's end.
RECURSIVE TouchingAfterFrom_Tolerant(_, _, _, _)
TouchingAfterFrom_Tolerant(apts, brks, chain, currentEndTime) ==
    LET taken == {chain[k].id : k \in 1..Len(chain)}
        next == {x \in apts \cup brks :
                    x.start - currentEndTime \in {0, 1} /\ x.id \notin taken}
    IN IF next # {}
       THEN LET nextItem == CHOOSE x \in next : \A y \in next : x.start <= y.start
                tbl == IF nextItem \in apts THEN "apt" ELSE "brk"
            IN TouchingAfterFrom_Tolerant(apts, brks, Append(chain, Entry(tbl, nextItem)),
                                          nextItem.end)
       ELSE chain

RECURSIVE TouchingAfterFrom(_, _, _, _)
TouchingAfterFrom(apts, brks, chain, currentEndTime) ==
    LET taken == {chain[k].id : k \in 1..Len(chain)}
        nextApts == {x \in apts : x.start = currentEndTime /\ x.id \notin taken}
        nextBrks == {x \in brks : x.start = currentEndTime /\ x.id \notin taken}
    IN IF nextApts # {}
       THEN LET nextItem == CHOOSE x \in nextApts : TRUE
            IN TouchingAfterFrom(apts, brks, Append(chain, Entry("apt", nextItem)), nextItem.end)
       ELSE IF nextBrks # {}
       THEN LET nextItem == CHOOSE x \in nextBrks : TRUE
            IN TouchingAfterFrom(apts, brks, Append(chain, Entry("brk", nextItem)), nextItem.end)
       ELSE chain

getTouchingItemsAfter(apts, brks, appointmentId) ==
    IF appointmentId \notin Ids(apts) THEN <<>>
    ELSE LET appointment == Row(apts, appointmentId)
         IN TouchingAfterFrom(apts, brks, <<Entry("apt", appointment)>>, appointment.end)

RECURSIVE TouchingBeforeFrom(_, _, _, _)
TouchingBeforeFrom(apts, brks, chain, currentStartTime) ==
    LET taken == {chain[k].id : k \in 1..Len(chain)}
        prevApts == {x \in apts : x.end = currentStartTime /\ x.id \notin taken}
        prevBrks == {x \in brks : x.end = currentStartTime /\ x.id \notin taken}
        latest(S) == CHOOSE x \in S : \A y \in S : y.start <= x.start
        prevItems == prevApts \cup prevBrks
    IN IF prevItems = {} THEN chain
       ELSE LET best == latest(prevItems)
                prevItem == IF \E x \in prevApts : x.start = best.start
                            THEN latest(prevApts) ELSE best
                tbl == IF prevItem \in prevApts THEN "apt" ELSE "brk"
            IN TouchingBeforeFrom(apts, brks, Append(chain, Entry(tbl, prevItem)), prevItem.start)

getTouchingItemsBefore(apts, brks, appointmentId) ==
    IF appointmentId \notin Ids(apts) THEN <<>>
    ELSE LET appointment == Row(apts, appointmentId)
         IN TouchingBeforeFrom(apts, brks, <<Entry("apt", appointment)>>, appointment.start)

canBulkShift(touchingItems, minutesShift) ==
    /\ touchingItems # <<>>
    /\ \A k \in 1..Len(touchingItems) :
           InsideBulkDay(touchingItems[k].start + minutesShift, touchingItems[k].dur)

canBulkShiftAfter(apts, brks, appointmentId, minutesShift) ==
    canBulkShift(getTouchingItemsAfter(apts, brks, appointmentId), minutesShift)

canBulkShiftBefore(apts, brks, appointmentId, minutesShift) ==
    canBulkShift(getTouchingItemsBefore(apts, brks, appointmentId), minutesShift)

Reverse(s) == [k \in 1..Len(s) |-> s[Len(s) + 1 - k]]

\* The updates a bulk shift issues, in the order it issues them.
BulkQueue(touchingItems, minutesShift) ==
    LET r == Reverse(touchingItems)
    IN [k \in 1..Len(r) |->
           [call |-> IF r[k].tbl = "apt" THEN "updateAppointment" ELSE "updateBreak",
            id |-> r[k].id, start |-> r[k].start + minutesShift, dur |-> Absent]]

(***************************************************************************)
(* The whole application.  Init is the state at mount: the store holds a   *)
(* schedule, the hook is loading and holds nothing.                        *)
(***************************************************************************)
AptIdSeq == <<"a1", "a2", "a3">>
AptIdPool == {AptIdSeq[k] : k \in 1..Len(AptIdSeq)}
ShiftDeltas == {-10, -5, 5, 10}
BulkAfterDeltas == {5, 10}
BulkBeforeDeltas == {-10, -5}
PointerYs == {-50, 250, 5400}
FormStarts == {540}
FormDurations == {30}

Seeds ==
    { [apts |-> {Item("a1", 480, 30), Item("a2", 515, 30)}, brks |-> {}],
      [apts |-> {Item("a1", 480, 30), Item("a2", 520, 30)}, brks |-> {Item("b1", 510, 10)}],
      [apts |-> {Item("a1", 1080, 30), Item("a2", 1120, 20)},
       brks |-> {Item("b1", 1110, 10)}] }

Init ==
    /\ \E seed \in Seeds :
          /\ dbApts = seed.apts
          /\ dbBrks = seed.brks
    /\ storeFmt \in StoreFormats
    /\ nextBrk = Cardinality(dbBrks) + 1
    /\ appointments = {}
    /\ breaks = {}
    /\ isLoading = TRUE
    /\ selectedDate = Today
    /\ pauseCounter = 0
    /\ timer = FALSE
    /\ timeouts = 0
    /\ effectCleanup = FALSE
    /\ passes = [p \in PassSlots |-> IdlePass]
    /\ settled = FALSE
    /\ synced = TRUE
    /\ op = NoOp
    /\ dragItem = NoDrag
    /\ edits = 0
    /\ failures = 0
    /\ last = NoLast

\* loadSchedule: both tables arrive, isLoading falls and the effect runs.
LoadSchedule ==
    /\ isLoading
    /\ appointments' = dbApts
    /\ breaks' = dbBrks
    /\ isLoading' = FALSE
    /\ SetTimerVars(AutoGenerationEffect(EffectTimer(FALSE, pauseCounter, dbApts)))
    /\ UNCHANGED <<storeVars, selectedDate, pauseCounter, passes, settled, synced, userVars,
                   failures>>

UserIdle == ~isLoading /\ op.kind = "none" /\ edits < MaxEdits

\* Variant that shows the requested placement in the lists before it is validated.
Rejected_Optimistic(kind, id, requested, reason) ==
    LET moved(list) == {IF x.id = id THEN Item(x.id, requested, x.dur) ELSE x : x \in list}
    IN /\ last' = [kind |-> kind, id |-> id, requested |-> requested, reason |-> reason]
       /\ edits' = edits + 1
       /\ appointments' = moved(appointments)
       /\ breaks' = moved(breaks)
       /\ UNCHANGED <<storeVars, isLoading, selectedDate, pauseCounter, timerVars, passes, settled, synced, op,
                      failures>>

Rejected(kind, id, requested, reason) ==
    /\ last' = [kind |-> kind, id |-> id, requested |-> requested, reason |-> reason]
    /\ edits' = edits + 1
    /\ UNCHANGED <<storeVars, appointments, breaks, isLoading, selectedDate, pauseCounter, timerVars, passes,
                   settled, synced, op, failures>>

\* A handler reaches its first await; chain and delta are the touching items and
\* the shift a bulk handler works on.
StartedChain(kind, id, requested, dur, queue, resume, drag, chain, delta) ==
    /\ op' = [kind |-> kind, id |-> id, requested |-> requested, dur |-> dur,
              queue |-> queue, chain |-> chain, delta |-> delta,
              resume |-> resume, drag |-> drag]
    /\ last' = NoLast
    /\ synced' = TRUE
    /\ UNCHANGED <<storeVars, appointments, breaks, isLoading, selectedDate, timerVars, passes, settled, failures>>

Started(kind, id, requested, dur, queue, resume, drag) ==
    StartedChain(kind, id, requested, dur, queue, resume, drag, <<>>, 0)

Call(call, id, start, dur) == [call |-> call, id |-> id, start |-> start, dur |-> dur]

\* handleUpdateAppointmentStartTime, up to its await.
ShiftAppointment(id, minutesShift) ==
    /\ UserIdle /\ dragItem = NoDrag
    /\ id \in Ids(appointments)
    /\ LET appointment == Row(appointments, id)
           newStartTime == appointment.start + minutesShift
       IN IF ~InsideDay(newStartTime, appointment.dur)
          THEN Rejected("shiftApt", id, newStartTime, "bounds") /\ UNCHANGED dragItem
          ELSE IF appointmentOverlapsAppointment(appointments, id, newStartTime,
                                                 appointment.dur)
          THEN Rejected("shiftApt", id, newStartTime, "overlap") /\ UNCHANGED dragItem
          ELSE /\ pauseCounter' = pauseCounter + 1
               /\ edits' = edits + 1
               /\ Started("shiftApt", id, newStartTime, appointment.dur,
                          <<Call("updateAppointment", id, newStartTime, Absent)>>,
                          TRUE, FALSE)
               /\ UNCHANGED dragItem

\* handleUpdateBreakStartTime: the update is sent and not awaited.
ShiftBreak(id, minutesShift) ==
    /\ UserIdle /\ dragItem = NoDrag
    /\ id \in Ids(breaks)
    /\ LET breakItem == Row(breaks, id)
           newStartTime == breakItem.start + minutesShift
       IN IF ~InsideDay(newStartTime, breakItem.dur)
          THEN Rejected("shiftBrk", id, newStartTime, "bounds") /\ UNCHANGED dragItem
          ELSE IF breakOverlapsAny(appointments, breaks, id, newStartTime, breakItem.dur)
          THEN Rejected("shiftBrk", id, newStartTime, "overlap") /\ UNCHANGED dragItem
          ELSE /\ edits' = edits + 1
               /\ Started("shiftBrk", id, newStartTime, breakItem.dur,
                          <<Call("updateBreak", id, newStartTime, Absent)>>, FALSE, FALSE)
               /\ UNCHANGED <<pauseCounter, dragItem>>

\* handleDragStart: the press on an item.
DragStart(id, type) ==
    /\ UserIdle /\ dragItem = NoDrag
    /\ id \in Ids(IF type = "appointment" THEN filteredAppointments ELSE filteredBreaks)
    /\ pauseCounter' = pauseCounter + 1
    /\ dragItem' = [id |-> id, type |-> type, hasMoved |-> FALSE]
    /\ edits' = edits + 1
    /\ UNCHANGED <<storeVars, appointments, breaks, isLoading, selectedDate, timerVars, passes, settled, synced,
                   op, failures, last>>

\* handleMove: the pointer is more than 5 pixels away from the press.
DragMove ==
    /\ dragItem # NoDrag /\ op.kind = "none"
    /\ ~dragItem.hasMoved
    /\ dragItem' = [dragItem EXCEPT !.hasMoved = TRUE]
    /\ UNCHANGED <<storeVars, appointments, breaks, isLoading, selectedDate, pauseCounter, timerVars, passes,
                   settled, synced, op, edits, failures, last>>

\* handleEnd, up to its await: the release at pointer offset relativeY.
DragEnd(relativeY) ==
    /\ dragItem # NoDrag /\ op.kind = "none"
    /\ LET table == IF dragItem.type = "appointment" THEN filteredAppointments
                    ELSE filteredBreaks
           newTime == yToTime(relativeY)
           drop(x) == UNCHANGED <<storeVars, appointments, breaks, isLoading, selectedDate, pauseCounter,
                                  timerVars, passes, settled, synced, op, edits, failures>>
                      /\ dragItem' = NoDrag /\ last' = x
       IN IF ~dragItem.hasMoved \/ dragItem.id \notin Ids(table)
          THEN drop(last)
          ELSE LET currentItem == Row(table, dragItem.id)
               IN IF dragItem.type = "appointment"
                  THEN IF appointmentOverlapsAppointment(filteredAppointments, dragItem.id,
                                                         newTime, currentItem.dur)
                       THEN drop([kind |-> "dragApt", id |-> dragItem.id,
                                  requested |-> PointerTime(relativeY), reason |-> "overlap"])
                       ELSE /\ pauseCounter' = pauseCounter + 1
                            /\ Started("dragApt", dragItem.id, PointerTime(relativeY),
                                       currentItem.dur,
                                       <<Call("updateAppointment", dragItem.id, newTime, Absent)>>,
                                       TRUE, TRUE)
                            /\ UNCHANGED <<dragItem, edits>>
                  ELSE IF breakOverlapsAny(filteredAppointments, filteredBreaks, dragItem.id,
                                           newTime, currentItem.dur)
                       THEN drop([kind |-> "dragBrk", id |-> dragItem.id,
                                  requested |-> PointerTime(relativeY), reason |-> "overlap"])
                       ELSE /\ Started("dragBrk", dragItem.id, PointerTime(relativeY),
                                       currentItem.dur,
                                       <<Call("updateBreak", dragItem.id, newTime, Absent)>>,
                                       FALSE, TRUE)
                            /\ UNCHANGED <<pauseCounter, dragItem, edits>>

\* handleBulkShiftAfter / handleBulkShiftBefore, up to the first await.
BulkShift(kind, id, minutesShift, touchingItems) ==
    /\ UserIdle /\ dragItem = NoDrag
    /\ id \in Ids(appointments)
    /\ IF ~canBulkShift(touchingItems, minutesShift)
       THEN Rejected(kind, id, Row(appointments, id).start + minutesShift, "bounds")
            /\ UNCHANGED dragItem
       ELSE /\ pauseCounter' = pauseCounter + 1
            /\ edits' = edits + 1
            /\ StartedChain(kind, id, Row(appointments, id).start + minutesShift,
                            Row(appointments, id).dur,
                            BulkQueue(touchingItems, minutesShift), TRUE, FALSE,
                            touchingItems, minutesShift)
            /\ UNCHANGED dragItem

BulkShiftAfter(id, minutesShift) ==
    BulkShift("bulkAfter", id, minutesShift, getTouchingItemsAfter(appointments, breaks, id))

BulkShiftBefore(id, minutesShift) ==
    BulkShift("bulkBefore", id, minutesShift, getTouchingItemsBefore(appointments, breaks, id))

\* App.handleFormSubmit (new appointment): createAppointment is sent.
FormCreate(startTime, durationMinutes) ==
    /\ UserIdle /\ dragItem = NoDrag
    /\ AptIdPool \ Ids(dbApts) # {}
    /\ edits' = edits + 1
    /\ Started("create", "none", startTime, durationMinutes,
               <<Call("createAppointment", "none", startTime, durationMinutes)>>,
               FALSE, FALSE)
    /\ UNCHANGED <<pauseCounter, dragItem>>

\* The delete buttons: deleteAppointment / deleteBreak of the hook are sent.
DeleteAppointment(id) ==
    /\ UserIdle /\ dragItem = NoDrag
    /\ id \in Ids(appointments)
    /\ edits' = edits + 1
    /\ Started("deleteApt", id, 0, 0, <<Call("deleteAppointment", id, Absent, Absent)>>,
               FALSE, FALSE)
    /\ UNCHANGED <<pauseCounter, dragItem>>

DeleteBreak(id) ==
    /\ UserIdle /\ dragItem = NoDrag
    /\ id \in Ids(breaks)
    /\ edits' = edits + 1
    /\ Started("deleteBrk", id, 0, 0, <<Call("deleteBreak", id, Absent, Absent)>>,
               FALSE, FALSE)
    /\ UNCHANGED <<pauseCounter, dragItem>>

(***************************************************************************)
(* The awaited store call of the handler in flight completes: the service  *)
(* function writes the store, the hook function puts the returned row into *)
(* its list, and the handler runs on to its next await or to its end       *)
(* (catch, finally resumeAutoGeneration, setDragItem(null)).               *)
(***************************************************************************)
NewAptId ==
    LET free == {k \in 1..Len(AptIdSeq) : AptIdSeq[k] \notin Ids(dbApts)}
    IN AptIdSeq[CHOOSE k \in free : \A j \in free : k <= j]

StoreAfter(c, tbl, table) ==
    IF c.call = "updateAppointment" /\ tbl = "apt"
    THEN StoreUpdate(table, c.id, [start |-> c.start, dur |-> c.dur])
    ELSE IF c.call = "updateBreak" /\ tbl = "brk"
    THEN StoreUpdate(table, c.id, [start |-> c.start, dur |-> c.dur])
    ELSE IF c.call = "createAppointment" /\ tbl = "apt"
    THEN table \cup {[id |-> NewAptId, start |-> c.start, dur |-> c.dur,
                      end |-> calculateEndTime(c.start, c.dur)]}
    ELSE IF c.call = "deleteAppointment" /\ tbl = "apt"
    THEN {r \in table : r.id # c.id}
    ELSE IF c.call = "deleteBreak" /\ tbl = "brk"
    THEN {r \in table : r.id # c.id}
    ELSE table

\* The hook's list after the call returned: the stored row replaces, joins or
\* leaves the list.
ListAfter(c, tbl, list, stored) ==
    IF (c.call = "updateAppointment" /\ tbl = "apt") \/ (c.call = "updateBreak" /\ tbl = "brk")
    THEN {IF x.id = c.id THEN Row(stored, c.id) ELSE x : x \in list}
    ELSE IF c.call = "createAppointment" /\ tbl = "apt"
    THEN list \cup (stored \ dbApts)
    ELSE IF (c.call = "deleteAppointment" /\ tbl = "apt") \/ (c.call = "deleteBreak" /\ tbl = "brk")
    THEN {x \in list : x.id # c.id}
    ELSE list

\* Variant that changes the list before the store call has answered.
HookList_Optimistic(success, c, tbl, list, stored) ==
    IF (c.call = "deleteAppointment" /\ tbl = "apt") \/ (c.call = "deleteBreak" /\ tbl = "brk")
    THEN {x \in list : x.id # c.id}
    ELSE IF success THEN ListAfter(c, tbl, list, stored) ELSE list

\* The hook function around the store call: the list changes only after the call
\* has returned; a failed call leaves it alone and the error is thrown on.
HookList(success, c, tbl, list, stored) ==
    IF success THEN ListAfter(c, tbl, list, stored) ELSE list

RowFound(c) ==
    /\ c.call = "updateAppointment" => c.id \in Ids(dbApts)
    /\ c.call = "updateBreak" => c.id \in Ids(dbBrks)

OpStep ==
    /\ op.kind # "none"
    /\ \E ok \in BOOLEAN :
          /\ ok \/ failures < MaxFailures
          /\ LET c == Head(op.queue)
                 success == ok /\ RowFound(c)
                 rest == IF success THEN Tail(op.queue) ELSE <<>>
                 finished == rest = <<>>
                 apts1 == HookList(success, c, "apt", appointments, dbApts')
                 counter1 == IF finished /\ op.resume
                             THEN ResumedCounter(pauseCounter) ELSE pauseCounter
             IN /\ dbApts' = IF success THEN StoreAfter(c, "apt", dbApts) ELSE dbApts
                /\ dbBrks' = IF success THEN StoreAfter(c, "brk", dbBrks) ELSE dbBrks
                /\ appointments' = apts1
                /\ breaks' = HookList(success, c, "brk", breaks, dbBrks')
                /\ pauseCounter' = counter1
                /\ SetTimerVars(IF apts1 # appointments
                                   \/ (finished /\ op.resume /\ counter1 = 0)
                                THEN AutoGenerationEffect(
                                         EffectTimer(isLoading, counter1, apts1))
                                ELSE NoEffectRun)
                /\ op' = IF finished THEN NoOp ELSE [op EXCEPT !.queue = rest]
                /\ dragItem' = IF finished /\ op.drag /\ (success \/ op.resume)
                               THEN NoDrag ELSE dragItem
                /\ settled' = (settled /\ ~success)
                /\ synced' = (synced /\ ~(success /\ c.call \in {"createAppointment",
                                                                "updateAppointment"}))
                /\ passes' = IF success THEN ManuallyEdited(Outdated(passes, {}), op.kind, c)
                              ELSE passes
                /\ failures' = IF ok THEN failures ELSE failures + 1
                /\ last' = IF success THEN last
                           ELSE [kind |-> op.kind, id |-> c.id, requested |-> op.requested,
                                 reason |-> "failed"]
    /\ UNCHANGED <<storeFmt, nextBrk, isLoading, selectedDate, edits>>

Next ==
    \/ LoadSchedule
    \/ TimerFire
    \/ \E p \in PassSlots : PassFetch(p)
    \/ \E p \in PassSlots : PassApply(p)
    \/ \E p \in PassSlots : PassRefresh(p)
    \/ \E id \in AptIdPool, d \in ShiftDeltas : ShiftAppointment(id, d)
    \/ \E id \in Ids(breaks), d \in ShiftDeltas : ShiftBreak(id, d)
    \/ \E id \in AptIdPool : DragStart(id, "appointment")
    \/ \E id \in Ids(breaks) : DragStart(id, "break")
    \/ DragMove
    \/ \E y \in PointerYs : DragEnd(y)
    \/ \E id \in AptIdPool, d \in BulkAfterDeltas : BulkShiftAfter(id, d)
    \/ \E id \in AptIdPool, d \in BulkBeforeDeltas : BulkShiftBefore(id, d)
    \/ \E s \in FormStarts, d \in FormDurations : FormCreate(s, d)
    \/ \E id \in AptIdPool : DeleteAppointment(id)
    \/ \E id \in Ids(breaks) : DeleteBreak(id)
    \/ OpStep

Spec == Init /\ [][Next]_vars

SnapshotA1 == Item("a1", 480, 30)
SnapshotA2 == {Item("a2", s, 10) : s \in {510, 515, 520, 545}}
SnapshotA3 == {Item("a3", s, 30) : s \in {540, 560, 600}}
SnapshotBreakShapes == {<<s, d>> : s \in {505, 510, 515, 520, 530, 535}, d \in {5, 10, 30}}

NonOverlapping(A) ==
    \A x, y \in A : x.id # y.id => ~Overlap(x.start, x.end, y.start, y.end)

SnapshotAppointments ==
    {A \in {{SnapshotA1, a2} : a2 \in SnapshotA2} \cup
            {{SnapshotA1, a2, a3} : a2 \in SnapshotA2, a3 \in SnapshotA3} :
        NonOverlapping(A)}

SnapshotBreaks ==
    UNION {{{Item(BrkId(k), f[k][1], f[k][2]) : k \in 1..n} :
               f \in [1..n -> SnapshotBreakShapes]} : n \in 0..MaxSnapshotBreaks}

ReconInit ==
    /\ dbApts \in SnapshotAppointments
    /\ dbBrks \in SnapshotBreaks
    /\ storeFmt \in StoreFormats
    /\ nextBrk = Cardinality(dbBrks) + 1
    /\ appointments = dbApts
    /\ breaks = dbBrks
    /\ isLoading = FALSE
    /\ selectedDate = Today
    /\ pauseCounter = 0
    /\ timer = TRUE
    /\ timeouts = 1
    /\ effectCleanup = TRUE
    /\ passes = [p \in PassSlots |-> IdlePass]
    /\ settled = FALSE
    /\ synced = TRUE
    /\ op = NoOp
    /\ dragItem = NoDrag
    /\ edits = 0
    /\ failures = 0
    /\ last = NoLast

ReconNext ==
    \/ TimerFire
    \/ \E p \in PassSlots : PassFetch(p)
    \/ \E p \in PassSlots : PassApply(p)
    \/ \E p \in PassSlots : PassRefresh(p)
    \/ ResumeIdle

ReconSpec == ReconInit /\ [][ReconNext]_vars

(***************************************************************************)
(* appointmentService alone: creates and updates carrying any subset of the *)
(* fields start_time, duration_minutes and end_time, one call at a time.    *)
(***************************************************************************)
MaxServiceRows == 1

ServiceStarts == {480, 540}
ServiceDurations == {30, 60, 90}
ServiceUpdates ==
    [start : {Absent} \cup ServiceStarts,
     dur : {Absent, 0} \cup ServiceDurations,
     end : {Absent, Empty, 600}]

ServiceInit ==
    /\ dbApts = {}
    /\ dbBrks = {}
    /\ storeFmt \in StoreFormats
    /\ nextBrk = 1
    /\ appointments = dbApts
    /\ breaks = dbBrks
    /\ isLoading = FALSE
    /\ selectedDate = Today
    /\ pauseCounter = 0
    /\ timer = FALSE
    /\ timeouts = 0
    /\ effectCleanup = FALSE
    /\ passes = [p \in PassSlots |-> IdlePass]
    /\ settled = FALSE
    /\ synced = TRUE
    /\ op = NoOp
    /\ dragItem = NoDrag
    /\ edits = 0
    /\ failures = 0
    /\ last = NoLast

ServiceWrite(table, id, upd) ==
    IF id \in Ids(table) /\ StoreAccepts(ServiceRow(Row(table, id), upd))
    THEN {IF r.id = id THEN ServiceRow(r, upd) ELSE r : r \in table}
    ELSE table

serviceUpdateAppointment(id, upd) ==
    /\ dbApts' = ServiceWrite(dbApts, id, upd)
    /\ UNCHANGED <<dbBrks, storeFmt, nextBrk, appointments, breaks, isLoading, selectedDate, pauseCounter,
                   timerVars, passes, settled, synced, userVars, failures>>

serviceUpdateBreak(id, upd) ==
    /\ dbBrks' = ServiceWrite(dbBrks, id, upd)
    /\ UNCHANGED <<dbApts, storeFmt, nextBrk, appointments, breaks, isLoading, selectedDate, pauseCounter,
                   timerVars, passes, settled, synced, userVars, failures>>

\* The insert carries the caller's fields with end_time replaced by the calculated one.
serviceCreateAppointment(startTime, durationMinutes) ==
    /\ Cardinality(dbApts) < MaxServiceRows
    /\ dbApts' = dbApts \cup {[id |-> NewAptId, start |-> startTime, dur |-> durationMinutes,
                                end |-> calculateEndTime(startTime, durationMinutes)]}
    /\ UNCHANGED <<dbBrks, storeFmt, nextBrk, appointments, breaks, isLoading, selectedDate, pauseCounter,
                   timerVars, passes, settled, synced, userVars, failures>>

serviceCreateBreak(startTime, durationMinutes) ==
    /\ Cardinality(dbBrks) < MaxServiceRows
    /\ dbBrks' = dbBrks \cup {[id |-> BrkId(nextBrk), start |-> startTime,
                                dur |-> durationMinutes,
                                end |-> calculateEndTime(startTime, durationMinutes)]}
    /\ nextBrk' = nextBrk + 1
    /\ UNCHANGED <<dbApts, storeFmt, appointments, breaks, isLoading, selectedDate, pauseCounter,
                   timerVars, passes, settled, synced, userVars, failures>>

ServiceNext ==
    \/ \E id \in AptIdPool, upd \in ServiceUpdates : serviceUpdateAppointment(id, upd)
    \/ \E id \in Ids(dbBrks), upd \in ServiceUpdates : serviceUpdateBreak(id, upd)
    \/ \E s \in ServiceStarts, d \in ServiceDurations : serviceCreateAppointment(s, d)
    \/ \E s \in ServiceStarts, d \in ServiceDurations : serviceCreateBreak(s, d)

ServiceSpec == ServiceInit /\ [][ServiceNext]_vars

\* C14: every stored appointment and break has end_time = start_time +
\* duration_minutes after every create and every update.
C14_DerivedEnd ==
    \A r \in dbApts \cup dbBrks : r.end = r.start + r.dur

(***************************************************************************)
(* The overlap validators alone: any displayed item set, any item of it and *)
(* any candidate start; the verdict is recorded in last.                    *)
(***************************************************************************)
ValidatorBreakShapes == {<<s, d>> : s \in {505, 510, 520, 535}, d \in {5, 10}}
ValidatorBreaks ==
    {{}} \cup {{Item("b1", f[1], f[2])} : f \in ValidatorBreakShapes}
         \cup {{Item("b1", f[1], f[2]), Item("b2", g[1], g[2])} :
                   f \in ValidatorBreakShapes, g \in ValidatorBreakShapes}
CandidateStarts == {480, 500, 510, 515, 520, 525, 540}

ValidatorInit ==
    /\ dbApts \in SnapshotAppointments
    /\ dbBrks \in ValidatorBreaks
    /\ storeFmt = "Z"
    /\ nextBrk = Cardinality(dbBrks) + 1
    /\ appointments = dbApts
    /\ breaks = dbBrks
    /\ isLoading = FALSE
    /\ selectedDate = Today
    /\ pauseCounter = 0
    /\ timer = FALSE
    /\ timeouts = 0
    /\ effectCleanup = FALSE
    /\ passes = [p \in PassSlots |-> IdlePass]
    /\ settled = FALSE
    /\ synced = TRUE
    /\ op = NoOp
    /\ dragItem = NoDrag
    /\ edits = 0
    /\ failures = 0
    /\ last = NoLast

Verdict(overlaps) == IF overlaps THEN "overlap" ELSE "accepted"

ValidateAppointment(id, newStartTime) ==
    /\ id \in Ids(appointments)
    /\ last' = [kind |-> "appointment", id |-> id, requested |-> newStartTime,
                reason |-> Verdict(appointmentOverlapsAppointment(
                               appointments, id, newStartTime, Row(appointments, id).dur))]
    /\ UNCHANGED <<storeVars, appointments, breaks, isLoading, selectedDate, pauseCounter, timerVars, passes,
                   settled, synced, op, dragItem, edits, failures>>

ValidateBreak(id, newStartTime) ==
    /\ id \in Ids(breaks)
    /\ last' = [kind |-> "break", id |-> id, requested |-> newStartTime,
                reason |-> Verdict(breakOverlapsAny(
                               appointments, breaks, id, newStartTime, Row(breaks, id).dur))]
    /\ UNCHANGED <<storeVars, appointments, breaks, isLoading, selectedDate, pauseCounter, timerVars, passes,
                   settled, synced, op, dragItem, edits, failures>>

ValidatorNext ==
    \/ \E id \in AptIdPool, t \in CandidateStarts : ValidateAppointment(id, t)
    \/ \E id \in Ids(breaks), t \in CandidateStarts : ValidateBreak(id, t)

ValidatorSpec == ValidatorInit /\ [][ValidatorNext]_vars

\* Reference predicate: the candidate [s, s + d) of item id is rejected iff it
\* overlaps an item of others other than itself.
ReferenceRejects(others, id, s, d) ==
    \E x \in others : x.id # id /\ s < x.end /\ s + d > x.start

\* C15: an appointment candidate is rejected iff it overlaps another appointment
\* (breaks are ignored); a break candidate is rejected iff it overlaps any
\* appointment or any other break; touching is not overlapping.
C15_ValidatorMatchesReference ==
    /\ last.kind = "appointment" =>
          ((last.reason = "overlap") <=>
              ReferenceRejects(appointments, last.id, last.requested,
                               Row(appointments, last.id).dur))
    /\ last.kind = "break" =>
          ((last.reason = "overlap") <=>
              ReferenceRejects(appointments \cup breaks, last.id, last.requested,
                               Row(breaks, last.id).dur))

\* An appointment candidate that touches another appointment's end and lies over a
\* break has been accepted.
C15_Witness ==
    /\ last.kind = "appointment" /\ last.reason = "accepted"
    /\ \E x \in appointments : x.id # last.id /\ x.end = last.requested
    /\ \E b \in breaks : b.start = last.requested

\* C1: an accepted engine operation (shift, drag-move, bulk shift) never turns a
\* schedule without overlapping appointments into one with overlapping appointments.
EngineKinds == {"shiftApt", "dragApt", "bulkAfter", "bulkBefore"}

C1_NoAppointmentOverlap ==
    [][(op.kind \in EngineKinds /\ NonOverlapping(dbApts)) => NonOverlapping(dbApts')]_vars

\* C5: while a pass holds a fetched snapshot with mutations still to apply, no other
\* pass fetches its snapshot.
C5_SerializedPasses ==
    [][\A p, q \in PassSlots :
          (p # q /\ passes[p].pc = "apply" /\ passes[q].pc = "fetch")
              => passes'[q].pc = "fetch"]_vars

\* C6: whenever no user operation is in progress the pause counter is 0.
NoUserOperation == ~isLoading /\ op.kind = "none" /\ dragItem = NoDrag

C6_PauseBalanced == NoUserOperation => pauseCounter = 0

\* C7: a resume call that brings the pause counter back to 0 while appointments
\* exist schedules the debounced pass.
C7_ResumeSchedulesPass ==
    [][(pauseCounter > 0 /\ pauseCounter' = 0 /\ appointments' # {}) => timer']_vars

\* C8: when nothing is left to run (no handler, no gesture, no timer, no pass) and
\* the last edit was a successful appointment create or update, a pass has taken
\* its snapshot after that write.
Quiescent == NoUserOperation /\ ~timer /\ InFlight = {}

C8_ChangeReconciled == Quiescent => synced

(***************************************************************************)
(* Gaps of a schedule.                                                     *)
(***************************************************************************)
ConsecutivePairs(A) ==
    {pr \in A \X A :
        /\ pr[1].start < pr[2].start
        /\ ~\E z \in A : pr[1].start < z.start /\ z.start < pr[2].start}

LegitimatePairs(A) ==
    {pr \in ConsecutivePairs(A) : LegitimateGap(pr[2].start - pr[1].end)}

Contained(b, pr) == b.start >= pr[1].end /\ b.end <= pr[2].start

\* C2: once a pass has applied all its mutations, every legitimate gap has exactly
\* one break that starts at the gap's start and lasts the whole gap.
C2_GapCoverage ==
    settled =>
        \A pr \in LegitimatePairs(dbApts) :
            Cardinality({b \in dbBrks : b.start = pr[1].end
                                        /\ b.dur = pr[2].start - pr[1].end}) = 1

\* C3: once a pass has applied all its mutations, every break left in the store is
\* fully contained in the gap of a consecutive pair whose gap is in (0, 30].
C3_NoOrphanBreaks ==
    settled => \A b \in dbBrks : \E pr \in LegitimatePairs(dbApts) : Contained(b, pr)

C3_Witness ==
    /\ settled
    /\ \E p \in PassSlots : passes[p].pc = "refresh"
    /\ dbBrks # {}
    /\ Cardinality(dbBrks) < Cardinality(breaks)

\* C4: a pass that starts from the state a completed pass left behind, with no
\* write in between, plans no create, no update and no delete.
C4_Idempotent ==
    \A p \in PassSlots : ~passes[p].resettled

\* C9: when nothing is left to run, no break outside a legitimate gap is left in
\* the store.
C9_OrphansDeleted ==
    Quiescent => \A b \in dbBrks : \E pr \in LegitimatePairs(dbApts) : Contained(b, pr)

\* C10: a shift or drag whose requested placement starts before the day start or
\* ends after the day end is never accepted.
PlacementKinds == {"shiftApt", "shiftBrk", "dragApt", "dragBrk"}

C10_BoundsEnforced ==
    op.kind \in PlacementKinds => InsideDay(op.requested, op.dur)

BulkKinds == {"bulkAfter", "bulkBefore"}

\* The step on which a bulk handler returns from its last update, every update of
\* its loop having succeeded.
BulkCompleted ==
    /\ op.kind \in BulkKinds
    /\ op'.kind = "none"
    /\ Len(op.queue) = 1
    /\ RowFound(Head(op.queue))
    /\ failures' = failures

\* The table of a chain member as the step leaves it.
StoreTableAfter(tbl) == IF tbl = "apt" THEN dbApts' ELSE dbBrks'

\* C11: after an accepted bulk shift every chain member starts at or after the day
\* start and ends at or before the day end (the window of the single shifts).
C11_BulkInsideDay ==
    [][BulkCompleted =>
          \A k \in 1..Len(op.chain) :
              \A r \in StoreTableAfter(op.chain[k].tbl) :
                  r.id = op.chain[k].id => InsideDay(r.start, r.dur)]_vars

\* C12: when an accepted bulk shift by delta completes, every member of its touching
\* chain is stored at its old start plus delta with its old duration.
C12_ChainRigid ==
    [][BulkCompleted =>
          \A k \in 1..Len(op.chain) :
              \E r \in StoreTableAfter(op.chain[k].tbl) :
                  /\ r.id = op.chain[k].id
                  /\ r.start = op.chain[k].start + op.delta
                  /\ r.dur = op.chain[k].dur]_vars

\* C13: a bulk shift emits updates only if no chain member would leave the
\* operating window after the shift.
C13_BulkAllOrNothing ==
    op.kind \in BulkKinds =>
        \A k \in 1..Len(op.chain) :
            InsideDay(op.chain[k].start + op.delta, op.chain[k].dur)

\* The step on which a shift or a drag is turned down for bounds or overlap.
RejectionStep ==
    /\ last'.kind \in PlacementKinds
    /\ last'.reason \in {"bounds", "overlap"}
    /\ last' # last \/ (edits' = edits + 1 /\ dragItem' = dragItem)

\* C16: a rejected single-item operation emits no update and leaves every item of
\* the store and of the in-memory lists as it was.
C16_RejectionAtomic ==
    [][RejectionStep =>
          /\ op' = op
          /\ dbApts' = dbApts /\ dbBrks' = dbBrks
          /\ appointments' = appointments /\ breaks' = breaks]_vars

\* A shift has been rejected for bounds or a placement for overlap.
C16_Witness ==
    /\ last.kind \in PlacementKinds
    /\ last.reason \in {"bounds", "overlap"}
    /\ op.kind = "none"
    /\ last.id \in Ids(appointments) \cup Ids(breaks)

\* C17: no pass is started while the pause counter is non-zero: a call of the
\* reconciler made then requests no snapshot, and so emits no mutation.
C17_PausedPassNoOp ==
    [][(\E p \in PassSlots : passes[p].pc = "idle" /\ passes'[p].pc # "idle")
          => pauseCounter = 0]_vars

\* The debounce timer has fired while the first shift was awaiting its update: the
\* 5-minute gap still has no break, no pass is running and no call has failed.
C17_Witness ==
    /\ op.kind = "shiftApt" /\ edits = 1 /\ pauseCounter > 0
    /\ ~timer /\ InFlight = {}
    /\ Cardinality(appointments) > 1
    /\ LegitimatePairs(dbApts) # {} /\ dbBrks = {}
    /\ failures = 0

\* C18: at most one debounce timeout is pending at any time, and it is the one the
\* hook's reference holds: a change or a resume arriving while a timeout is pending
\* cancels it before the new one is set, so a burst starts at most one pass.
C18_SingleTimer == timeouts <= 1 /\ (timer <=> timeouts = 1)

\* An appointment was created while the timeout set after loading was still
\* pending (no pass has run: the open gap has no break yet), and one timeout is
\* pending now.
C18_Witness ==
    /\ edits = 1 /\ op.kind = "none" /\ dragItem = NoDrag /\ pauseCounter = 0
    /\ Cardinality(appointments) = 3
    /\ LegitimatePairs(dbApts) # {} /\ dbBrks = {}
    /\ InFlight = {} /\ failures = 0
    /\ timeouts = 1

\* C19: two passes never both emit a create for the same gap: no two passes in
\* flight hold, in the batches they are applying, a create for the same gap.
PendingCreates(p) == SeqRange(passes[p].creates)

C19_NoDuplicateCreate ==
    \A p, q \in PassSlots : p # q => PendingCreates(p) \cap PendingCreates(q) = {}

\* C20: a pass never overwrites or deletes a break that a user handler moved or
\* deleted in the store after the pass fetched its snapshot.
PassWrites(p) ==
    /\ passes[p].pc = "apply"
    /\ passes'[p].updates # passes[p].updates \/ passes'[p].deletes # passes[p].deletes
    /\ dbBrks' # dbBrks

PassTarget(p) ==
    IF passes[p].updates # <<>> THEN Head(passes[p].updates).id ELSE Head(passes[p].deletes)

C20_ManualEditKept ==
    [][\A p \in PassSlots : PassWrites(p) => PassTarget(p) \notin passes[p].manual]_vars

(***************************************************************************)
(* Duration changes: the resize gesture of useResize and the duration      *)
(* buttons of BreakBlock hand a new duration to their callback, which      *)
(* validates it as a placement and sends the update.                       *)
(***************************************************************************)
ResizePixelsPerHour == 80
MinDuration == 5
DurationStep == 5

Max(a, b) == IF a >= b THEN a ELSE b

\* Math.round((deltaY / pixelsPerHour) * 60)
DeltaMinutes(deltaY) == RoundDiv(deltaY * MinutesPerHour, ResizePixelsPerHour)

\* Variant that commits the snapped duration without the lower limit.
handleResizeEnd_NoMinimum(startDuration, deltaY) ==
    RoundDiv(startDuration + DeltaMinutes(deltaY), DurationStep) * DurationStep

\* useResize.handleResizeEnd: the duration handed to onResize.
handleResizeEnd(startDuration, deltaY) ==
    Max(MinDuration,
        RoundDiv(startDuration + DeltaMinutes(deltaY), DurationStep) * DurationStep)

\* BreakBlock duration buttons: the duration handed to onUpdateDuration.
AdjustedDuration(duration, adjustment) ==
    IF adjustment < 0 THEN Max(MinDuration, duration + adjustment)
    ELSE duration + adjustment

\* resizeDuration: the interval with the same start and the new end is validated
\* as a placement, and the update of duration_minutes is sent or the request is
\* rejected.  The duration arrives clamped and snapped by the caller.
resizeDuration(kind, id, newDuration) ==
    LET item == Row(appointments \cup breaks, id)
        overlaps == IF kind = "resizeApt"
                    THEN appointmentOverlapsAppointment(appointments, id, item.start,
                                                        newDuration)
                    ELSE breakOverlapsAny(appointments, breaks, id, item.start, newDuration)
        call == IF kind = "resizeApt" THEN "updateAppointment" ELSE "updateBreak"
    IN IF ~InsideDay(item.start, newDuration)
       THEN Rejected(kind, id, newDuration, "bounds")
       ELSE IF overlaps
       THEN Rejected(kind, id, newDuration, "overlap")
       ELSE /\ edits' = edits + 1
            /\ Started(kind, id, newDuration, newDuration,
                       <<Call(call, id, Absent, newDuration)>>, FALSE, FALSE)

ResizeDeltas == {-200, -40, -3, 0, 3, 4, 10, 17, 40, 100}
DurationAdjustments == {-10, -5, 5, 10}

ResizeAppointment(id, deltaY) ==
    /\ UserIdle /\ dragItem = NoDrag
    /\ id \in Ids(appointments)
    /\ resizeDuration("resizeApt", id, handleResizeEnd(Row(appointments, id).dur, deltaY))
    /\ UNCHANGED <<pauseCounter, dragItem>>

ResizeBreak(id, deltaY) ==
    /\ UserIdle /\ dragItem = NoDrag
    /\ id \in Ids(breaks)
    /\ resizeDuration("resizeBrk", id, handleResizeEnd(Row(breaks, id).dur, deltaY))
    /\ UNCHANGED <<pauseCounter, dragItem>>

AdjustBreakDuration(id, adjustment) ==
    /\ UserIdle /\ dragItem = NoDrag
    /\ id \in Ids(breaks)
    /\ resizeDuration("adjustBrk", id, AdjustedDuration(Row(breaks, id).dur, adjustment))
    /\ UNCHANGED <<pauseCounter, dragItem>>

ResizeNext ==
    \/ LoadSchedule
    \/ \E id \in AptIdPool, deltaY \in ResizeDeltas : ResizeAppointment(id, deltaY)
    \/ \E id \in Ids(breaks), deltaY \in ResizeDeltas : ResizeBreak(id, deltaY)
    \/ \E id \in Ids(breaks), a \in DurationAdjustments : AdjustBreakDuration(id, a)
    \/ OpStep

ResizeSpec == Init /\ [][ResizeNext]_vars

ResizeKinds == {"resizeApt", "resizeBrk", "adjustBrk"}

StartDurations == {5, 7, 10, 12, 13, 30, 45}

ResizeHookInit ==
    /\ dbApts = {} /\ dbBrks = {}
    /\ storeFmt = "Z"
    /\ nextBrk = 1
    /\ appointments = {} /\ breaks = {}
    /\ isLoading = FALSE
    /\ selectedDate = Today
    /\ pauseCounter = 0
    /\ timer = FALSE /\ timeouts = 0 /\ effectCleanup = FALSE
    /\ passes = [p \in PassSlots |-> IdlePass]
    /\ settled = FALSE
    /\ synced = TRUE
    /\ \E startDuration \in StartDurations, deltaY \in ResizeDeltas :
          op = [NoOp EXCEPT !.kind = "resizing", !.dur = startDuration, !.delta = deltaY]
    /\ dragItem = NoDrag
    /\ edits = 0
    /\ failures = 0
    /\ last = NoLast

ResizeEnd ==
    /\ op.kind = "resizing"
    /\ op' = [op EXCEPT !.kind = "resized"]
    /\ last' = [kind |-> "resize", id |-> op.id,
                requested |-> handleResizeEnd(op.dur, op.delta), reason |-> "none"]
    /\ UNCHANGED <<storeVars, appointments, breaks, isLoading, selectedDate, pauseCounter, timerVars,
                   passes, settled, synced, dragItem, edits, failures>>

ResizeHookSpec == ResizeHookInit /\ [][ResizeEnd]_vars

Distance(a, b) == IF a >= b THEN a - b ELSE b - a
MultiplesOfFive == {5 * k : k \in -60..60}
NearestMultipleOfFive(x) ==
    CHOOSE m \in MultiplesOfFive : \A k \in MultiplesOfFive : Distance(x, m) <= Distance(x, k)

ChainBreakShapes == ValidatorBreakShapes \cup {<<511, 9>>, <<531, 4>>}
ChainBreaks ==
    {{}} \cup {{Item("b1", f[1], f[2])} : f \in ChainBreakShapes}
         \cup {{Item("b1", f[1], f[2]), Item("b2", g[1], g[2])} :
                   f \in ChainBreakShapes, g \in ChainBreakShapes}

ChainInit ==
    /\ dbApts \in SnapshotAppointments
    /\ dbBrks \in ChainBreaks
    /\ storeFmt = "Z"
    /\ nextBrk = Cardinality(dbBrks) + 1
    /\ appointments = dbApts
    /\ breaks = dbBrks
    /\ isLoading = FALSE
    /\ selectedDate = Today
    /\ pauseCounter = 0
    /\ timer = FALSE /\ timeouts = 0 /\ effectCleanup = FALSE
    /\ passes = [p \in PassSlots |-> IdlePass]
    /\ settled = FALSE
    /\ synced = TRUE
    /\ op = NoOp
    /\ dragItem = NoDrag
    /\ edits = 0
    /\ failures = 0
    /\ last = NoLast

Traversed(kind, id, chain) ==
    /\ op' = [NoOp EXCEPT !.kind = kind, !.id = id, !.chain = chain]
    /\ UNCHANGED <<storeVars, appointments, breaks, isLoading, selectedDate, pauseCounter, timerVars,
                   passes, settled, synced, dragItem, edits, failures, last>>

TouchingAfter(id) ==
    Traversed("touchingAfter", id, getTouchingItemsAfter(appointments, breaks, id))

TouchingBefore(id) ==
    Traversed("touchingBefore", id, getTouchingItemsBefore(appointments, breaks, id))

ChainNext ==
    \/ \E id \in AptIdPool : TouchingAfter(id)
    \/ \E id \in AptIdPool : TouchingBefore(id)

ChainSpec == ChainInit /\ [][ChainNext]_vars

ChainIds(c) == {c[k].id : k \in 1..Len(c)}
ChainEnd(e) == e.start + e.dur

\* C23: the chain after an appointment is that appointment followed by items each
\* starting exactly at the previous member's end, none repeated, and it cannot be
\* extended (nothing outside it starts at its end); an item one minute later is
\* not a member.  The chain before is the mirror image with end = chain start.
C23_ExactTouching ==
    LET c == op.chain
        all == appointments \cup breaks
        last_ == c[Len(c)]
    IN (op.kind \in {"touchingAfter", "touchingBefore"} /\ op.id \in Ids(appointments)) =>
          /\ c # <<>> /\ c[1].id = op.id
          /\ \A k \in 1..Len(c) : \E x \in all :
                 x.id = c[k].id /\ x.start = c[k].start /\ x.dur = c[k].dur
          /\ \A j, k \in 1..Len(c) : j # k => c[j].id # c[k].id
          /\ op.kind = "touchingAfter" =>
                /\ \A k \in 1..(Len(c) - 1) : c[k + 1].start = ChainEnd(c[k])
                /\ ~\E x \in all : x.id \notin ChainIds(c) /\ x.start = ChainEnd(last_)
          /\ op.kind = "touchingBefore" =>
                /\ \A k \in 1..(Len(c) - 1) : ChainEnd(c[k + 1]) = c[k].start
                /\ ~\E x \in all : x.id \notin ChainIds(c) /\ x.end = last_.start

\* A chain of three members after a1 whose end is followed, one minute later, by
\* a break that is not a member.
C23_Witness ==
    /\ op.kind = "touchingAfter" /\ op.id = "a1" /\ Len(op.chain) = 3
    /\ \E x \in breaks : x.id \notin ChainIds(op.chain)
                           /\ x.start = ChainEnd(op.chain[3]) + 1

\* C24: a pass that is applying its batch goes on after every call, failed or not:
\* each step of the pass removes one operation from the batch, the pass leaves
\* the batch only when it is empty, and it then reloads the breaks from the
\* store before it ends.
Remaining(rec) == Len(rec.creates) + Len(rec.updates) + Len(rec.deletes)

C24_FailureNotFatal ==
    [][\A p \in PassSlots :
          /\ passes[p].pc = "apply" =>
                /\ passes'[p].pc \in {"apply", "refresh"}
                /\ Remaining(passes'[p]) \in {Remaining(passes[p]), Remaining(passes[p]) - 1}
                /\ (passes'[p].pc = "refresh") <=> (Remaining(passes'[p]) = 0)
          /\ (passes[p].pc = "refresh" /\ passes'[p].pc # "refresh") =>
                (passes'[p].pc = "idle" /\ breaks' = dbBrks')]_vars

\* A call of the batch has failed and the pass still holds the rest of the batch.
C24_Witness ==
    \E p \in PassSlots :
        passes[p].pc = "apply" /\ passes[p].failed /\ Remaining(passes[p]) > 0

\* C25: when the store call of a hook function fails, the appointment and break
\* lists are unchanged and the error reaches the calling handler, which ends.
FailedCall ==
    /\ op.kind # "none" /\ op' # op
    /\ failures' = failures + 1 \/ ~RowFound(Head(op.queue))

C25_FailureKeepsLists ==
    [][FailedCall =>
          /\ appointments' = appointments /\ breaks' = breaks
          /\ last'.reason = "failed"
          /\ op'.kind = "none"]_vars

\* The delete of an appointment has failed: the appointment is still in the list.
C25_Witness ==
    /\ last.kind = "deleteApt" /\ last.reason = "failed" /\ op.kind = "none"
    /\ last.id \in Ids(appointments) /\ last.id \in Ids(dbApts)

(***************************************************************************)
(* yToTime alone: a pointer offset from the top of the schedule (clientY - *)
(* containerTop + scrollTop) is resolved to a time.                        *)
(***************************************************************************)
PointerOffsets == {29 * k - 100 : k \in 0..200} \cup {0, 20, 21, 5479, 5480, 5500}

PointerInit ==
    /\ dbApts = {} /\ dbBrks = {}
    /\ storeFmt = "Z"
    /\ nextBrk = 1
    /\ appointments = {} /\ breaks = {}
    /\ isLoading = FALSE
    /\ selectedDate = Today
    /\ pauseCounter = 0
    /\ timer = FALSE /\ timeouts = 0 /\ effectCleanup = FALSE
    /\ passes = [p \in PassSlots |-> IdlePass]
    /\ settled = FALSE
    /\ synced = TRUE
    /\ \E relativeY \in PointerOffsets : op = [NoOp EXCEPT !.kind = "pointer", !.delta = relativeY]
    /\ dragItem = NoDrag
    /\ edits = 0
    /\ failures = 0
    /\ last = NoLast

ResolveTime ==
    /\ op.kind = "pointer"
    /\ op' = [op EXCEPT !.kind = "resolved"]
    /\ last' = [kind |-> "yToTime", id |-> "none", requested |-> yToTime(op.delta),
                reason |-> "none"]
    /\ UNCHANGED <<storeVars, appointments, breaks, isLoading, selectedDate, pauseCounter, timerVars,
                   passes, settled, synced, dragItem, edits, failures>>

PointerSpec == PointerInit /\ [][ResolveTime]_vars

\* The offset of the day end, in pixels.
DayHeight == ((DayEnd - DayStart) * PixelsPerHour) \div MinutesPerHour

QuarterHour == 15

C27_QuarterHourDrag ==
    op.kind \in {"dragApt", "dragBrk"} => Head(op.queue).start % QuarterHour = 0

\* C28: a press-and-release without a move of more than 5 pixels is a no-op: the
\* release starts no update, leaves the store, the lists and the pending timeout
\* alone, and the pause counter is what it was before the press (the press has
\* raised it by one and nothing else changes it while the item is held).
ClickRelease == dragItem # NoDrag /\ ~dragItem.hasMoved /\ dragItem' = NoDrag

C28_ClickIsNoOp ==
    [][ClickRelease =>
          /\ op' = op /\ op.kind = "none"
          /\ UNCHANGED <<storeVars, appointments, breaks, timerVars>>
          /\ pauseCounter' = pauseCounter - 1]_vars

(***************************************************************************)
(* The whole application together with the duration handlers: every write  *)
(* path of the store in one specification.                                 *)
(***************************************************************************)
TimelineNext ==
    \/ Next
    \/ \E id \in AptIdPool, deltaY \in ResizeDeltas : ResizeAppointment(id, deltaY)
    \/ \E id \in Ids(breaks), deltaY \in ResizeDeltas : ResizeBreak(id, deltaY)
    \/ \E id \in Ids(breaks), a \in DurationAdjustments : AdjustBreakDuration(id, a)

TimelineSpec == Init /\ [][TimelineNext]_vars

C30_NoBreakOverlap ==
    (settled /\ NonOverlapping(dbApts)) =>
        /\ \A b \in dbBrks : \A a \in dbApts : ~Overlap(b.start, b.end, a.start, a.end)
        /\ \A b, c \in dbBrks :
              b.id # c.id => ~Overlap(b.start, b.end, c.start, c.end)

(***************************************************************************)
(* The plan of a pass against the snapshot it was computed from.           *)
(***************************************************************************)
Planned(p) == passes[p].pc = "fetch" /\ passes'[p].pc # "fetch"

GapBreaks(B, pr) ==
    {b \in B : \/ (b.start >= pr[1].end /\ b.start < pr[2].start)
               \/ (b.end > pr[1].end /\ b.end <= pr[2].start)
               \/ (b.start < pr[1].end /\ b.end > pr[2].start)}

GapCreates(rec, pr) ==
    {k \in 1..Len(rec.creates) : rec.creates[k].start = pr[1].end}

GapUpdates(rec, pr) ==
    {k \in 1..Len(rec.updates) : rec.updates[k].start = pr[1].end}

\* C31: for a legitimate gap that some break overlaps, the plan holds no create,
\* keeps the first overlapping break, and holds an update of that break to
\* (start of the gap, length of the gap) only if the break's start or duration
\* differs; for a legitimate gap that no break overlaps it holds exactly one
\* create spanning the gap.
C31_GapPlan ==
    [][\A p \in PassSlots : Planned(p) =>
          \A pr \in LegitimatePairs(dbApts) :
              LET rec == passes'[p]
                  gap == pr[2].start - pr[1].end
                  found == GapBreaks(dbBrks, pr)
              IN IF found = {}
                 THEN /\ Cardinality(GapCreates(rec, pr)) = 1
                      /\ \A k \in GapCreates(rec, pr) : rec.creates[k].dur = gap
                 ELSE /\ GapCreates(rec, pr) = {}
                      /\ \A k \in GapUpdates(rec, pr) :
                            \E b \in found :
                                /\ b.id = rec.updates[k].id
                                /\ \A c \in found : b.start <= c.start
                                /\ rec.updates[k].dur = gap
                                /\ (b.start # pr[1].end \/ b.dur # gap)
                      /\ \E b \in found :
                            /\ \A c \in found : b.start <= c.start
                            /\ \A k \in 1..Len(rec.deletes) : rec.deletes[k] # b.id]_vars

(***************************************************************************)
(* The enabled flags of the quick-adjustment buttons against the handlers  *)
(* they guard.  A flag is computed from the lists the handler reads.       *)
(***************************************************************************)
ShiftKinds == {"shiftApt", "shiftBrk"}

HandlerAccepts(kinds) == op.kind = "none" /\ op'.kind \in kinds

HandlerRejects(kinds) ==
    /\ last'.kind \in kinds
    /\ last'.reason \in {"bounds", "overlap"}
    /\ edits' = edits + 1 /\ op' = op /\ dragItem' = dragItem

RequestedShift(r) == r.requested - Row(appointments \cup breaks, r.id).start

BulkFlag(r) ==
    IF r.kind = "bulkAfter"
    THEN canBulkShiftAfter(appointments, breaks, r.id, RequestedShift(r))
    ELSE canBulkShiftBefore(appointments, breaks, r.id, RequestedShift(r))

\* C32: the enabled flag agrees with the operation it guards: a single shift is
\* accepted and sends its update exactly when canShiftTime holds for the same item
\* and delta, and a bulk shift sends its updates exactly when canBulkShiftAfter /
\* canBulkShiftBefore holds.
C32_FlagAgrees ==
    [][/\ HandlerAccepts(ShiftKinds) =>
             /\ canShiftTime(appointments, breaks, op'.id, RequestedShift(op'))
             /\ op'.queue # <<>>
       /\ HandlerRejects(ShiftKinds) =>
             ~canShiftTime(appointments, breaks, last'.id, RequestedShift(last'))
       /\ HandlerAccepts(BulkKinds) => BulkFlag(op') /\ op'.queue # <<>>
       /\ HandlerRejects(BulkKinds) => ~BulkFlag(last')]_vars

\* A single shift has been refused for overlap, and the flag of the same item
\* and delta is off.
C32_Witness ==
    /\ last.kind \in ShiftKinds
    /\ last.reason = "overlap"
    /\ op.kind = "none"
    /\ ~canShiftTime(appointments, breaks, last.id, RequestedShift(last))

(***************************************************************************)
(* appointmentService.updateBreak in its two awaited steps: the select of  *)
(* the current row, then the update statement.  Two calls on the same      *)
(* break are in flight: the one handleUpdateBreakStartTime has sent (start *)
(* only, not awaited, not paused) and the one update of a pass (start and  *)
(* duration).  A call that has selected carries the row it read in the     *)
(* field current.                                                          *)
(***************************************************************************)
Selected(c) == "current" \in DOMAIN c

WithCurrent(c, row) ==
    [f \in DOMAIN c \cup {"current"} |-> IF f = "current" THEN row ELSE c[f]]

\* The row the update statement leaves: the carried columns and the end_time
\* calculated from the carried values or those of the row selected earlier.
UpdateStatement(stored, current, upd) ==
    LET recalculated == TruthyText(upd.start) \/ TruthyNumber(upd.dur)
        startTime == IF TruthyText(upd.start) THEN upd.start ELSE current.start
        duration == IF TruthyNumber(upd.dur) THEN upd.dur ELSE current.dur
    IN [id |-> stored.id,
        start |-> IF upd.start # Absent THEN upd.start ELSE stored.start,
        dur |-> IF upd.dur # Absent THEN upd.dur ELSE stored.dur,
        end |-> IF recalculated THEN calculateEndTime(startTime, duration) ELSE stored.end]

RaceA2 == {Item("a2", s, 30) : s \in {525, 530, 540}}
RaceBreakShapes == {<<s, d>> : s \in {510, 515, 520}, d \in {5, 10, 15}}

RaceInit ==
    /\ storeFmt \in StoreFormats
    /\ \E a2 \in RaceA2, f \in RaceBreakShapes, d \in ShiftDeltas :
          LET b1 == Item("b1", f[1], f[2])
              sa == CHOOSE q \in SortedSeqs({SnapshotA1, a2}) : TRUE
              plan == Plan(sa, <<b1>>, storeFmt)
          IN /\ dbApts = {SnapshotA1, a2}
             /\ dbBrks = {b1}
             /\ canShiftTime(dbApts, dbBrks, "b1", d)
             /\ plan.creates = <<>> /\ plan.deletes = <<>> /\ Len(plan.updates) = 1
             /\ passes = [p \in PassSlots |->
                   IF p = 1
                   THEN [IdlePass EXCEPT !.pc = "apply", !.updates = plan.updates]
                   ELSE IdlePass]
             /\ op = [NoOp EXCEPT !.kind = "shiftBrk", !.id = "b1",
                                  !.requested = b1.start + d, !.dur = b1.dur,
                                  !.queue = <<Call("updateBreak", "b1", b1.start + d, Absent)>>]
    /\ nextBrk = 2
    /\ appointments = dbApts
    /\ breaks = dbBrks
    /\ isLoading = FALSE
    /\ selectedDate = Today
    /\ pauseCounter = 0
    /\ timer = FALSE
    /\ timeouts = 0
    /\ effectCleanup = FALSE
    /\ settled = FALSE
    /\ synced = TRUE
    /\ dragItem = NoDrag
    /\ edits = 1
    /\ failures = 0
    /\ last = NoLast

\* The handler's call selects the current row.
HandlerSelect ==
    /\ op.kind = "shiftBrk" /\ op.queue # <<>>
    /\ ~Selected(Head(op.queue))
    /\ Head(op.queue).id \in Ids(dbBrks)
    /\ op' = [op EXCEPT !.queue =
                 <<WithCurrent(Head(op.queue), Row(dbBrks, Head(op.queue).id))>>]
    /\ UNCHANGED <<storeVars, appointments, breaks, isLoading, selectedDate, pauseCounter, timerVars, passes,
                   settled, synced, dragItem, edits, failures, last>>

\* The handler's call writes; the hook replaces the break by the returned row.
HandlerUpdate ==
    /\ op.kind = "shiftBrk" /\ op.queue # <<>>
    /\ Selected(Head(op.queue))
    /\ LET c == Head(op.queue)
           row == UpdateStatement(Row(dbBrks, c.id), c.current,
                                  [start |-> c.start, dur |-> c.dur])
       IN /\ dbBrks' = {IF r.id = c.id THEN row ELSE r : r \in dbBrks}
          /\ breaks' = {IF r.id = c.id THEN row ELSE r : r \in breaks}
    /\ op' = NoOp
    /\ passes' = Outdated(passes, {})
    /\ settled' = FALSE
    /\ UNCHANGED <<dbApts, storeFmt, nextBrk, appointments, isLoading, selectedDate, pauseCounter, timerVars,
                   synced, dragItem, edits, failures, last>>

\* The update of the pass selects the current row.
PassSelect(p) ==
    /\ passes[p].pc = "apply" /\ passes[p].updates # <<>>
    /\ ~Selected(Head(passes[p].updates))
    /\ Head(passes[p].updates).id \in Ids(dbBrks)
    /\ passes' = [passes EXCEPT ![p].updates =
                     <<WithCurrent(Head(@), Row(dbBrks, Head(@).id))>> \o Tail(@)]
    /\ UNCHANGED <<storeVars, appointments, breaks, isLoading, selectedDate, pauseCounter, timerVars,
                   settled, synced, userVars, failures>>

\* The update of the pass writes.
PassUpdate(p) ==
    /\ passes[p].pc = "apply" /\ passes[p].updates # <<>>
    /\ Selected(Head(passes[p].updates))
    /\ LET u == Head(passes[p].updates)
           rec == [passes[p] EXCEPT !.updates = Tail(@)]
       IN /\ dbBrks' = {IF r.id = u.id
                        THEN UpdateStatement(r, u.current, [start |-> u.start, dur |-> u.dur])
                        ELSE r : r \in dbBrks}
          /\ AfterMutation(p, rec, FALSE, FALSE)
    /\ UNCHANGED <<dbApts, storeFmt, nextBrk, appointments, breaks, isLoading, selectedDate, pauseCounter,
                   timerVars, synced, userVars>>

RaceNext ==
    \/ HandlerSelect
    \/ HandlerUpdate
    \/ \E p \in PassSlots : PassSelect(p)
    \/ \E p \in PassSlots : PassUpdate(p)
    \/ \E p \in PassSlots : PassRefresh(p)

RaceSpec == RaceInit /\ [][RaceNext]_vars

BothComplete == op.kind = "none" /\ InFlight = {}

\* C33: when a manual move and an update of a pass on the same break are in
\* flight at once, the stored row has end_time = start_time + duration_minutes
\* after both have completed, under every interleaving of their select and
\* update steps.
C33_RaceKeepsEnd ==
    BothComplete => \A r \in dbBrks : r.end = r.start + r.dur

(***************************************************************************)
(* Drag and drop on any selected date: the store holds the schedule of the *)
(* selected date, today or tomorrow.                                       *)
(***************************************************************************)
Tomorrow == Today + 1
SelectedDates == {Today, Tomorrow}

OnDay(S, day) == {Item(x.id, x.start + day * MinutesPerDay, x.dur) : x \in S}

DateInit ==
    /\ selectedDate \in SelectedDates
    /\ \E seed \in Seeds :
          /\ dbApts = OnDay(seed.apts, selectedDate)
          /\ dbBrks = OnDay(seed.brks, selectedDate)
    /\ storeFmt \in StoreFormats
    /\ nextBrk = Cardinality(dbBrks) + 1
    /\ appointments = {}
    /\ breaks = {}
    /\ isLoading = TRUE
    /\ pauseCounter = 0
    /\ timer = FALSE
    /\ timeouts = 0
    /\ effectCleanup = FALSE
    /\ passes = [p \in PassSlots |-> IdlePass]
    /\ settled = FALSE
    /\ synced = TRUE
    /\ op = NoOp
    /\ dragItem = NoDrag
    /\ edits = 0
    /\ failures = 0
    /\ last = NoLast

DateNext ==
    \/ LoadSchedule
    \/ \E id \in AptIdPool : DragStart(id, "appointment")
    \/ \E id \in Ids(breaks) : DragStart(id, "break")
    \/ DragMove
    \/ \E y \in PointerYs : DragEnd(y)
    \/ OpStep

DateSpec == DateInit /\ [][DateNext]_vars

DayOf(time) == time \div MinutesPerDay

\* C34: a drag-move changes only the time of day of the dragged item: the start
\* it sends is on the calendar date the item is on, and it overlaps no other
\* appointment of that date.
C34_DragKeepsDate ==
    (op.kind \in {"dragApt", "dragBrk"} /\ op.queue # <<>>) =>
        LET c == Head(op.queue)
            item == Row(appointments \cup breaks, c.id)
        IN /\ DayOf(c.start) = DayOf(item.start)
           /\ \A apt \in appointments :
                  apt.id # c.id => ~Overlap(c.start, c.start + item.dur, apt.start, apt.end)

(***************************************************************************)
(* The store between two member updates of a bulk shift.                   *)
(***************************************************************************)
BetweenMemberUpdates ==
    /\ op.kind \in BulkKinds
    /\ op.queue # <<>>
    /\ Len(op.queue) < Len(op.chain)

ChainMembers == {op.chain[k].id : k \in 1..Len(op.chain)}

StoredMembers == {r \in dbApts \cup dbBrks : r.id \in ChainMembers}

\* The member of the chain farthest from the anchor in the direction of travel
\* among those not yet moved.
Farthest(S) ==
    CHOOSE x \in S : \A y \in S :
        IF op.delta > 0 THEN y.start <= x.start ELSE y.start >= x.start

\* C35: a bulk shift updates its members one at a time, the member farthest from
\* the anchor in the direction of travel first, and between two member updates no
\* two members of the chain overlap each other in the store.
C35_BulkOrder ==
    /\ (op.kind \in BulkKinds /\ op.queue # <<>>) =>
           LET waiting == {op.chain[k] : k \in 1..Len(op.queue)}
           IN Head(op.queue).id = Farthest(waiting).id
    /\ BetweenMemberUpdates =>
           \A x, y \in StoredMembers :
               x.id # y.id => ~Overlap(x.start, x.end, y.start, y.end)

\* A create, an update or a delete of a pass reaches the store.
PassMutates(p) ==
    /\ passes[p].pc = "apply"
    /\ \/ passes'[p].creates # passes[p].creates
       \/ passes'[p].updates # passes[p].updates
       \/ passes'[p].deletes # passes[p].deletes
    /\ dbBrks' # dbBrks

\* C36: while the pause counter is non-zero no create, update or delete of a pass
\* is applied to the store, those of a pass that started before the counter was
\* raised included.
C36_PausedNoMutation ==
    [][\A p \in PassSlots : PassMutates(p) => pauseCounter = 0]_vars

\* The step on which a bulk handler returns because one of its updates failed.
BulkFailed ==
    /\ op.kind \in BulkKinds
    /\ op'.kind = "none"
    /\ last'.reason = "failed"

\* The chain member is stored at its old start plus the shift as the step ends.
MemberMoved(k) ==
    \E r \in StoreTableAfter(op.chain[k].tbl) :
        r.id = op.chain[k].id /\ r.start = op.chain[k].start + op.delta

\* C37: a bulk shift is atomic with respect to a persistence failure: when the
\* update of a chain member fails and the handler returns, either every member
\* of the chain is stored shifted or none is.
C37_BulkAtomic ==
    [][BulkFailed =>
          \/ \A k \in 1..Len(op.chain) : MemberMoved(k)
          \/ \A k \in 1..Len(op.chain) : ~MemberMoved(k)]_vars

\* C38: within one pass each existing break is the target of at most one
\* mutation: no break id is in two updates of the plan, and no break id is in
\* both the updates and the deletes.
C38_OneMutationPerBreak ==
    \A p \in PassSlots :
        LET rec == passes[p]
        IN /\ \A i, j \in 1..Len(rec.updates) :
                  i # j => rec.updates[i].id # rec.updates[j].id
           /\ \A i \in 1..Len(rec.updates), j \in 1..Len(rec.deletes) :
                  rec.updates[i].id # rec.deletes[j]

(***************************************************************************)
(* getTouchingItemsAfter / getTouchingItemsBefore one loop iteration at a  *)
(* time, over any displayed item set: overlapping items, equal start times *)
(* and items of no duration included.  op.chain is touchingItems and       *)
(* op.requested is currentEndTime (currentStartTime when walking back).    *)
(***************************************************************************)
\* Variant whose find does not test touchingItems.includes(item).
NextItems_Revisit(apts, brks, chain, time, after) ==
    LET touches(x) == IF after THEN x.start = time ELSE x.end = time
        candidates == {x \in apts \cup brks : touches(x)}
        first == {x \in candidates : \A y \in candidates : y.start <= x.start}
    IN IF first \cap apts # {} THEN {[tbl |-> "apt", item |-> x] : x \in first \cap apts}
       ELSE {[tbl |-> "brk", item |-> x] : x \in first}

\* The items allItems.find can return in one iteration: allItems is sorted by
\* start time (descending when walking back), appointments before breaks among
\* equal start times.
NextItems(apts, brks, chain, time, after) ==
    LET taken == {chain[k].id : k \in 1..Len(chain)}
        touches(x) == IF after THEN x.start = time ELSE x.end = time
        candidates == {x \in apts \cup brks : touches(x) /\ x.id \notin taken}
        first == {x \in candidates : \A y \in candidates : y.start <= x.start}
    IN IF first \cap apts # {} THEN {[tbl |-> "apt", item |-> x] : x \in first \cap apts}
       ELSE {[tbl |-> "brk", item |-> x] : x \in first}

WalkA2 == {Item("a2", 510, d) : d \in {0, 10, 30}} \cup {Item("a2", 500, 10)}
WalkA3 == {Item("a3", s, d) : s \in {510, 520}, d \in {0, 20}}
WalkBreakShapes == {<<480, 0>>, <<500, 10>>, <<510, 0>>, <<510, 10>>, <<520, 0>>}
WalkBreaks ==
    {{}} \cup {{Item("b1", f[1], f[2])} : f \in WalkBreakShapes}
         \cup {{Item("b1", f[1], f[2]), Item("b2", g[1], g[2])} :
                   f \in WalkBreakShapes, g \in WalkBreakShapes}

WalkInit ==
    /\ \E a2 \in WalkA2, a3 \in WalkA3 : dbApts = {SnapshotA1, a2, a3}
    /\ dbBrks \in WalkBreaks
    /\ storeFmt = "Z"
    /\ nextBrk = Cardinality(dbBrks) + 1
    /\ appointments = dbApts
    /\ breaks = dbBrks
    /\ isLoading = FALSE
    /\ selectedDate = Today
    /\ pauseCounter = 0
    /\ timer = FALSE /\ timeouts = 0 /\ effectCleanup = FALSE
    /\ passes = [p \in PassSlots |-> IdlePass]
    /\ settled = FALSE
    /\ synced = TRUE
    /\ op = NoOp
    /\ dragItem = NoDrag
    /\ edits = 0
    /\ failures = 0
    /\ last = NoLast

Walked(next) ==
    /\ op' = next
    /\ UNCHANGED <<storeVars, appointments, breaks, isLoading, selectedDate, pauseCounter,
                   timerVars, passes, settled, synced, dragItem, edits, failures, last>>

\* The function is entered: touchingItems = [appointment].
WalkStart(id, after) ==
    /\ op.kind = "none"
    /\ id \in Ids(appointments)
    /\ LET appointment == Row(appointments, id)
       IN Walked([NoOp EXCEPT !.kind = IF after THEN "walkAfter" ELSE "walkBefore",
                              !.id = id,
                              !.chain = <<Entry("apt", appointment)>>,
                              !.requested = IF after THEN appointment.end
                                            ELSE appointment.start])

\* One iteration of while (true): push the item found, or break.
WalkStep ==
    /\ op.kind \in {"walkAfter", "walkBefore"}
    /\ LET after == op.kind = "walkAfter"
           found == NextItems(appointments, breaks, op.chain, op.requested, after)
       IN IF found = {}
          THEN Walked([op EXCEPT !.kind = IF after THEN "touchingAfter" ELSE "touchingBefore"])
          ELSE \E n \in found :
                  Walked([op EXCEPT !.chain = Append(@, Entry(n.tbl, n.item)),
                                    !.requested = IF after THEN n.item.end ELSE n.item.start])

WalkNext ==
    \/ \E id \in AptIdPool : WalkStart(id, TRUE)
    \/ \E id \in AptIdPool : WalkStart(id, FALSE)
    \/ WalkStep

WalkSpec == WalkInit /\ [][WalkNext]_vars

Iteration == op.kind \in {"walkAfter", "walkBefore"} /\ op'.chain # op.chain

\* C39: getTouchingItemsAfter and getTouchingItemsBefore terminate on every item
\* set: each loop iteration adds one item that is not yet in the chain, so the
\* chain never grows beyond the number of items and the loop ends.
C39_WalkTerminates ==
    [][Iteration =>
          /\ Len(op'.chain) = Len(op.chain) + 1
          /\ op'.chain[Len(op'.chain)].id \notin ChainIds(op.chain)
          /\ Len(op'.chain) <= Cardinality(appointments \cup breaks)]_vars

\* A walk has ended after passing through an item of no duration and at least
\* two iterations.
C39_Witness ==
    /\ op.kind \in {"touchingAfter", "touchingBefore"}
    /\ Len(op.chain) >= 3
    /\ \E k \in 1..Len(op.chain) : op.chain[k].dur = 0

====
